---- MODULE Spec2Model ----
(***************************************************************************)
(* Model of the declaration-language front end: the table-driven scanner   *)
(* (lex.rs), the earlier scanner (old_lexer.rs), the tree builder, the     *)
(* lowering, the analysis and the serializer (parse.rs).                   *)
(*                                                                         *)
(* Text is a sequence of one-character strings; a token is a record        *)
(* [kind, text]; positions are 1-based indexes of the next character.      *)
(***************************************************************************)
EXTENDS Integers, Sequences, FiniteSets, TLC

(***************************************************************************)
(* Bounds of the enumerated inputs.                                        *)
(***************************************************************************)
MaxPieces == 3
MaxToks == 4
MaxDecls == 2

(***************************************************************************)
(* Characters and their classes (char::is_whitespace, is_alphabetic,       *)
(* is_alphanumeric restricted to ASCII).                                   *)
(***************************************************************************)
Q == "\""
NL == "\n"

Letters ==
    {"a","b","c","d","e","f","g","h","i","j","k","l","m",
     "n","o","p","q","r","s","t","u","v","w","x","y","z"}

Digits == {"0","1","2","3","4","5","6","7","8","9"}

is_whitespace(c) == c \in {" ", "\t", "\n", "\r"}

is_alphabetic(c) == c \in Letters

is_alphanumeric(c) == c \in (Letters \cup Digits)

(***************************************************************************)
(* Option values returned by the sub-lexers: a token and the number of     *)
(* characters the sub-lexer took from the iterator.                        *)
(***************************************************************************)
None == [some |-> FALSE]

Some(tok, n) == [some |-> TRUE, tok |-> tok, n |-> n]

TokenData(kind, text) == [kind |-> kind, text |-> text]

(***************************************************************************)
(* lex.rs: the punctuation sub-lexers, each consuming one character.       *)
(***************************************************************************)
lex_equal == Some(TokenData("Equal", <<"=">>), 1)

lex_colon == Some(TokenData("Colon", <<":">>), 1)

lex_semicolon == Some(TokenData("Semicolon", <<";">>), 1)

lex_newline == Some(TokenData("NewLine", <<NL>>), 1)

punctuation_tokenizers ==
    [c \in {"=", ":", ";", NL} |->
        CASE c = "=" -> lex_equal
          [] c = ":" -> lex_colon
          [] c = ";" -> lex_semicolon
          [] c = NL  -> lex_newline]

(***************************************************************************)
(* The maximal run of characters of src from pos on that are horizontal    *)
(* whitespace (the loop of lex_whitespace).                                *)
(***************************************************************************)
RECURSIVE whitespace_run(_, _)
whitespace_run(src, pos) ==
    IF pos <= Len(src) /\ is_whitespace(src[pos]) /\ src[pos] # NL
    THEN <<src[pos]>> \o whitespace_run(src, pos + 1)
    ELSE <<>>

\* lex_whitespace without its early return: Some of an empty run.
lex_whitespace_unguarded(src, pos) ==
    LET text == whitespace_run(src, pos)
    IN Some(TokenData("Whitespace", text), Len(text))

lex_whitespace(src, pos) ==
    IF ~(pos <= Len(src) /\ is_whitespace(src[pos]) /\ src[pos] # NL)
    THEN None
    ELSE LET text == whitespace_run(src, pos)
         IN Some(TokenData("Whitespace", text), Len(text))

(***************************************************************************)
(* The maximal run of alphanumeric or underscore characters.               *)
(***************************************************************************)
RECURSIVE ident_run(_, _)
ident_run(src, pos) ==
    IF pos <= Len(src) /\ (is_alphanumeric(src[pos]) \/ src[pos] = "_")
    THEN <<src[pos]>> \o ident_run(src, pos + 1)
    ELSE <<>>

keyword_kind(text) ==
    IF text = <<"l","e","t">> THEN "Let"
    ELSE IF text = <<"s","t","r","i","n","g">> THEN "Type"
    ELSE "Ident"

lex_ident_or_keyword(src, pos) ==
    IF ~(pos <= Len(src) /\ is_alphabetic(src[pos]))
    THEN None
    ELSE LET text == ident_run(src, pos)
         IN Some(TokenData(keyword_kind(text), text), Len(text))

(***************************************************************************)
(* The characters from pos up to, not including, the next quote or the     *)
(* end of the input.                                                       *)
(***************************************************************************)
RECURSIVE string_body(_, _)
string_body(src, pos) ==
    IF pos <= Len(src) /\ src[pos] # Q
    THEN <<src[pos]>> \o string_body(src, pos + 1)
    ELSE <<>>

\* lex_string_literal reporting an unterminated literal as a StringLiteral.
lex_string_literal_unterminated_ok(src, pos) ==
    IF ~(pos <= Len(src) /\ src[pos] = Q)
    THEN None
    ELSE LET value == string_body(src, pos + 1)
             close == pos + 1 + Len(value)
         IN Some(TokenData("StringLiteral", value),
                 IF close <= Len(src) THEN Len(value) + 2 ELSE Len(value) + 1)

\* lex_string_literal keeping the delimiting quotes in the token text.
lex_string_literal_quoted(src, pos) ==
    IF ~(pos <= Len(src) /\ src[pos] = Q)
    THEN None
    ELSE LET value == string_body(src, pos + 1)
             close == pos + 1 + Len(value)
         IN IF close <= Len(src)
            THEN Some(TokenData("StringLiteral", <<Q>> \o value \o <<Q>>), Len(value) + 2)
            ELSE Some(TokenData("Error", value), Len(value) + 1)

lex_string_literal(src, pos) ==
    IF ~(pos <= Len(src) /\ src[pos] = Q)
    THEN None
    ELSE LET value == string_body(src, pos + 1)
             close == pos + 1 + Len(value)
         IN IF close <= Len(src)
            THEN Some(TokenData("StringLiteral", value), Len(value) + 2)
            ELSE Some(TokenData("Error", value), Len(value) + 1)

(***************************************************************************)
(* One iteration of the scan loop of table_lex at position pos             *)
(* (pos <= Len(src)): the sub-lexers in their fixed order, then the        *)
(* one-character fallback.                                                 *)
(***************************************************************************)
table_lex_iteration(src, pos) ==
    LET ch == src[pos]
    IN IF ch \in DOMAIN punctuation_tokenizers
       THEN punctuation_tokenizers[ch]
       ELSE IF lex_whitespace(src, pos).some
       THEN lex_whitespace(src, pos)
       ELSE IF lex_ident_or_keyword(src, pos).some
       THEN lex_ident_or_keyword(src, pos)
       ELSE IF lex_string_literal(src, pos).some
       THEN lex_string_literal(src, pos)
       ELSE Some(TokenData("Error", <<ch>>), 1)

(***************************************************************************)
(* old_lexer.rs: one iteration of the match of lex.  The whitespace arm    *)
(* comes first and takes the newline too; its text is always one space.    *)
(***************************************************************************)
lex_iteration(src, pos) ==
    LET ch == src[pos]
    IN IF is_whitespace(ch)
       THEN Some(TokenData("Whitespace", <<" ">>), 1)
       ELSE IF ch = ":" THEN Some(TokenData("Colon", <<":">>), 1)
       ELSE IF ch = NL THEN Some(TokenData("NewLine", <<NL>>), 1)
       ELSE IF ch = "=" THEN Some(TokenData("Equal", <<"=">>), 1)
       ELSE IF ch = ";" THEN Some(TokenData("Semicolon", <<";">>), 1)
       ELSE IF ch = Q
       THEN LET value == string_body(src, pos + 1)
                close == pos + 1 + Len(value)
            IN Some(TokenData("StringLiteral", value),
                    IF close <= Len(src) THEN Len(value) + 2 ELSE Len(value) + 1)
       ELSE IF is_alphabetic(ch)
       THEN LET ident == ident_run(src, pos)
            IN Some(TokenData(keyword_kind(ident), ident), Len(ident))
       ELSE Some(TokenData("Error", <<ch>>), 1)

(***************************************************************************)
(* lex.rs: the operator trie.  A trie is a function from the paths         *)
(* (character sequences) of its nodes to the node's kind, "None" for a     *)
(* node without a kind; the root is the empty path.                        *)
(***************************************************************************)
TrieNode_new == [p \in {<<>>} |-> "None"]

Prefixes(sequence) == {SubSeq(sequence, 1, k) : k \in 0..Len(sequence)}

TrieNode_insert(trie, sequence, kind) ==
    [p \in (DOMAIN trie) \cup Prefixes(sequence) |->
        IF p = sequence THEN kind
        ELSE IF p \in DOMAIN trie THEN trie[p]
        ELSE "None"]

build_operator_trie ==
    LET t1 == TrieNode_insert(TrieNode_new, <<"=">>, "Equal")
        t2 == TrieNode_insert(t1, <<"=", "=">>, "EqualEqual")
        t3 == TrieNode_insert(t2, <<"=", ">">>, "FatArrow")
        t4 == TrieNode_insert(t3, <<"=", "<">>, "EqualLess")
        t5 == TrieNode_insert(t4, <<":", "=">>, "ColonEqual")
        t6 == TrieNode_insert(t5, <<":">>, "Colon")
        t7 == TrieNode_insert(t6, <<":", ":">>, "DoubleColon")
        t8 == TrieNode_insert(t7, <<";">>, "Semicolon")
    IN TrieNode_insert(t8, <<NL>>, "NewLine")

(***************************************************************************)
(* The walk of lex_operator: follow the edges of the trie from the node    *)
(* at path, remembering the last node passed that carries a kind.          *)
(***************************************************************************)
RECURSIVE trie_walk(_, _, _, _, _)
trie_walk(trie, src, i, path, matched) ==
    IF i <= Len(src) /\ Append(path, src[i]) \in DOMAIN trie
    THEN LET next_node == Append(path, src[i])
         IN trie_walk(trie, src, i + 1, next_node,
                      IF trie[next_node] # "None"
                      THEN Some(TokenData(trie[next_node], next_node), Len(next_node))
                      ELSE matched)
    ELSE matched

lex_operator(src, pos, trie) == trie_walk(trie, src, pos, <<>>, None)

(***************************************************************************)
(* node.rs: syntax elements and nodes.                                     *)
(***************************************************************************)
SyntaxElement_Token(tok) == [el |-> "Token", token |-> tok]

SyntaxElement_Node(n) == [el |-> "Node", node |-> n]

SyntaxNodeData(kind, children) == [kind |-> kind, children |-> children]

IsTokenElement(e) == e.el = "Token"

IsNodeElement(e) == e.el = "Node"

RECURSIVE MapToken(_)
MapToken(els) ==
    IF els = <<>> THEN <<>> ELSE <<Head(els).token>> \o MapToken(Tail(els))

RECURSIVE MapNode(_)
MapNode(els) ==
    IF els = <<>> THEN <<>> ELSE <<Head(els).node>> \o MapNode(Tail(els))

node_tokens(n) == MapToken(SelectSeq(n.children, IsTokenElement))

child_nodes(n) == MapNode(SelectSeq(n.children, IsNodeElement))

(***************************************************************************)
(* parse.rs: parse_tokens_to_cst.  st is the pair of the children built    *)
(* so far and the cursor i (1-based).                                      *)
(***************************************************************************)
accept(toks, st, kind) ==
    IF st.i <= Len(toks) /\ toks[st.i].kind = kind
    THEN [children |-> Append(st.children, SyntaxElement_Token(toks[st.i])),
          i |-> st.i + 1]
    ELSE st

\* parse_var_decl testing for the colon before the identifier.
parse_var_decl_colon_first(toks, i) ==
    LET s0 == [children |-> <<SyntaxElement_Token(toks[i])>>, i |-> i + 1]
        s1 == accept(toks, s0, "Colon")
        s2 == accept(toks, s1, "Ident")
        s3 == accept(toks, s2, "Type")
        s4 == accept(toks, s3, "Equal")
        s5 == accept(toks, s4, "StringLiteral")
    IN accept(toks, s5, "Semicolon")

parse_var_decl(toks, i) ==
    LET s0 == [children |-> <<SyntaxElement_Token(toks[i])>>, i |-> i + 1]
        s1 == accept(toks, s0, "Ident")
        s2 == accept(toks, s1, "Colon")
        s3 == accept(toks, s2, "Type")
        s4 == accept(toks, s3, "Equal")
        s5 == accept(toks, s4, "StringLiteral")
    IN accept(toks, s5, "Semicolon")

\* parse_decls stepping over a token that is not Let instead of stopping.
RECURSIVE parse_decls_skipping(_, _, _)
parse_decls_skipping(toks, i, decls) ==
    IF i > Len(toks) THEN decls
    ELSE IF toks[i].kind = "Let"
    THEN LET d == parse_var_decl(toks, i)
         IN parse_decls_skipping(toks, d.i,
                Append(decls, SyntaxElement_Node(SyntaxNodeData("VarDecl", d.children))))
    ELSE parse_decls_skipping(toks, i + 1, decls)

RECURSIVE parse_decls(_, _, _)
parse_decls(toks, i, decls) ==
    IF i <= Len(toks) /\ toks[i].kind = "Let"
    THEN LET d == parse_var_decl(toks, i)
         IN parse_decls(toks, d.i,
                Append(decls, SyntaxElement_Node(SyntaxNodeData("VarDecl", d.children))))
    ELSE decls

parse_tokens_to_cst(toks) == SyntaxNodeData("Root", parse_decls(toks, 1, <<>>))

(***************************************************************************)
(* parse.rs: lower_to_ast.  find_kind is iter().find(..): the first token  *)
(* of the kind, or None; unwrap() on None panics.                          *)
(***************************************************************************)
find_kind(toks, kind) ==
    LET I == {i \in DOMAIN toks : toks[i].kind = kind}
    IN IF I = {} THEN None
       ELSE Some(toks[CHOOSE i \in I : \A j \in I : i <= j], 0)

lower_var_decl(node) ==
    LET toks == node_tokens(node)
        name == find_kind(toks, "Ident")
        ty == find_kind(toks, "Type")
        value == find_kind(toks, "StringLiteral")
    IN IF name.some /\ ty.some /\ value.some
       THEN [panic |-> FALSE,
             decl |-> [name |-> name.tok.text, ty |-> ty.tok.text,
                       value |-> value.tok.text]]
       ELSE [panic |-> TRUE]

RECURSIVE lower_nodes(_, _)
lower_nodes(nodes, decls) ==
    IF nodes = <<>> THEN [panic |-> FALSE, decls |-> decls]
    ELSE IF Head(nodes).kind # "VarDecl" THEN lower_nodes(Tail(nodes), decls)
    ELSE LET r == lower_var_decl(Head(nodes))
         IN IF r.panic THEN [panic |-> TRUE, decls |-> decls]
            ELSE lower_nodes(Tail(nodes), Append(decls, r.decl))

lower_to_ast(root) == lower_nodes(child_nodes(root), <<>>)

(***************************************************************************)
(* parse.rs: analyze prints one line per finding; the lines are kept as    *)
(* records.                                                                *)
(***************************************************************************)
TyString == <<"s","t","r","i","n","g">>

analyze_decl(decl) ==
    (IF decl.ty # TyString
     THEN <<[level |-> "Error", what |-> "Unsupported type", arg |-> decl.ty]>>
     ELSE <<>>)
    \o
    (IF decl.value = <<>>
     THEN <<[level |-> "Warning", what |-> "Empty string", arg |-> decl.name]>>
     ELSE <<>>)

RECURSIVE analyze(_)
analyze(decls) ==
    IF decls = <<>> THEN <<>>
    ELSE analyze_decl(Head(decls)) \o analyze(Tail(decls))

(***************************************************************************)
(* parse.rs: compile.                                                      *)
(***************************************************************************)
compile_entry(d) ==
    <<" ", " ", Q>> \o d.name \o <<Q, ":", " ", Q>> \o d.value \o <<Q, ",", NL>>

RECURSIVE compile_entries(_)
compile_entries(decls) ==
    IF decls = <<>> THEN <<>>
    ELSE compile_entry(Head(decls)) \o compile_entries(Tail(decls))

\* compile without the comma after the last entry.
compile_no_trailing_comma(decls) ==
    LET body == compile_entries(decls)
    IN <<"{", NL>>
       \o (IF body = <<>> THEN <<>>
           ELSE SubSeq(body, 1, Len(body) - 2) \o <<NL>>)
       \o <<"}">>

compile(decls) == <<"{", NL>> \o compile_entries(decls) \o <<"}">>

(***************************************************************************)
(* main.rs: serde_json::from_str(&json).is_ok(), for documents made of     *)
(* objects and strings.  Each operator returns the index after what it     *)
(* read, or 0 when the text is not JSON there.  Any text compile returns   *)
(* for one or more records ends in `,` newline `}`, which no JSON value    *)
(* does, so the values left out (numbers, arrays, literals, \u escapes)    *)
(* cannot make a text of compile valid.                                    *)
(***************************************************************************)
RECURSIVE json_skip_ws(_, _)
json_skip_ws(s, i) ==
    IF i <= Len(s) /\ s[i] \in {" ", "\t", NL, "\r"}
    THEN json_skip_ws(s, i + 1)
    ELSE i

RECURSIVE json_string_tail(_, _)
json_string_tail(s, i) ==
    IF i > Len(s) THEN 0
    ELSE IF s[i] = Q THEN i + 1
    ELSE IF s[i] = "\\"
    THEN IF i + 1 <= Len(s) /\ s[i + 1] \in {Q, "\\", "/", "b", "f", "n", "r", "t"}
         THEN json_string_tail(s, i + 2)
         ELSE 0
    ELSE IF s[i] \in {NL, "\t", "\r"} THEN 0
    ELSE json_string_tail(s, i + 1)

json_string(s, i) ==
    IF i <= Len(s) /\ s[i] = Q THEN json_string_tail(s, i + 1) ELSE 0

RECURSIVE json_value(_, _)
RECURSIVE json_members(_, _)
json_object(s, i) ==
    LET j == json_skip_ws(s, i + 1)
    IN IF j <= Len(s) /\ s[j] = "}" THEN j + 1 ELSE json_members(s, j)

json_value(s, i) ==
    IF i > Len(s) THEN 0
    ELSE IF s[i] = Q THEN json_string(s, i)
    ELSE IF s[i] = "{" THEN json_object(s, i)
    ELSE 0

json_members(s, i) ==
    LET k == json_string(s, i)
        c == json_skip_ws(s, k)
    IN IF k = 0 \/ c > Len(s) \/ s[c] # ":" THEN 0
       ELSE LET v == json_value(s, json_skip_ws(s, c + 1))
                e == json_skip_ws(s, v)
            IN IF v = 0 \/ e > Len(s) THEN 0
               ELSE IF s[e] = "," THEN json_members(s, json_skip_ws(s, e + 1))
               ELSE IF s[e] = "}" THEN e + 1
               ELSE 0

from_str_is_ok(s) ==
    LET v == json_value(s, json_skip_ws(s, 1))
    IN v # 0 /\ json_skip_ws(s, v) = Len(s) + 1

(***************************************************************************)
(* The inputs.  A source text is a concatenation of at most MaxPieces      *)
(* lexeme pieces, or one of the sample programs; a token slice handed      *)
(* directly to parse_tokens_to_cst is at most MaxToks tokens of            *)
(* TokenAlphabet, or the tokens of at most MaxDecls declarations.          *)
(***************************************************************************)
KwLet == <<"l","e","t">>

TyNumber == <<"n","u","m","b","e","r">>

Pieces ==
    {KwLet, TyString, <<"x">>, <<"1">>, <<"_">>, <<" ">>, <<"\t">>, <<NL>>,
     <<":">>, <<"=">>, <<";">>, <<Q>>, <<"@">>}

SeqsUpTo(S, n) == UNION {[1..k -> S] : k \in 0..n}

RECURSIVE Flatten(_)
Flatten(ss) == IF ss = <<>> THEN <<>> ELSE Head(ss) \o Flatten(Tail(ss))

DeclText(id, ty, s) ==
    KwLet \o <<" ">> \o id \o <<":", " ">> \o ty \o <<" ", "=", " ", Q>> \o s \o <<Q, ";">>

HappyPathSource == DeclText(<<"x">>, TyString, <<"h","i">>)

TwoDeclsSource ==
    DeclText(<<"a">>, TyString, <<"1">>) \o <<" ">> \o DeclText(<<"b">>, TyString, <<"2">>)

UnterminatedSource ==
    KwLet \o <<" ", "x", ":", " ">> \o TyString \o <<" ", "=", " ", Q, "o", "o", "p", "s">>

UnsupportedTypeSource == DeclText(<<"a">>, TyNumber, <<"1">>)

SampleSources ==
    {HappyPathSource, TwoDeclsSource, UnterminatedSource, UnsupportedTypeSource}

\* Single well-formed declarations `let <id>: string = "<s>";`.
DeclIds == {<<"x">>, <<"n","a","m","e">>, <<"l","e","t","_","1">>}

DeclStrings == {<<>>, <<"h","i">>, <<"A","b","h","i">>, <<"l","e","t"," ",";">>}

DeclSources == {DeclText(id, TyString, str) : id \in DeclIds, str \in DeclStrings}

Sources ==
    {Flatten(ps) : ps \in SeqsUpTo(Pieces, MaxPieces)} \cup SampleSources \cup DeclSources

TokenAlphabet ==
    {TokenData("Let", KwLet), TokenData("Ident", <<"a">>), TokenData("Colon", <<":">>),
     TokenData("Type", TyString), TokenData("Equal", <<"=">>),
     TokenData("StringLiteral", <<"1">>), TokenData("Semicolon", <<";">>),
     TokenData("Whitespace", <<" ">>), TokenData("Error", <<"@">>)}

DeclTokens(id, ty, s) ==
    <<TokenData("Let", KwLet), TokenData("Ident", id), TokenData("Colon", <<":">>),
      TokenData("Type", ty), TokenData("Equal", <<"=">>),
      TokenData("StringLiteral", s), TokenData("Semicolon", <<";">>)>>

WithoutKind(toks, kind) == SelectSeq(toks, LAMBDA t : t.kind # kind)

DeclShapes ==
    LET full == DeclTokens(<<"a">>, TyString, <<"1">>)
    IN {full,
        DeclTokens(<<"b">>, TyString, <<"2">>),
        DeclTokens(<<"a">>, TyNumber, <<"1">>),
        DeclTokens(<<"e">>, TyString, <<>>),
        DeclTokens(<<"q">>, TyString, <<"a", Q, "\\">>),
        WithoutKind(full, "Ident"),
        WithoutKind(full, "Type"),
        WithoutKind(full, "StringLiteral")}

TokenSlices ==
    SeqsUpTo(TokenAlphabet, MaxToks)
        \cup {Flatten(ds) : ds \in SeqsUpTo(DeclShapes, MaxDecls)}

(***************************************************************************)
(* The state of one run of the pipeline.                                   *)
(***************************************************************************)
VARIABLES
    lexer,      \* "table" (table_lex), "old" (lex) or "none" (tokens given)
    source,     \* the input text
    pos,        \* the scan position: index of the character peek() returns
    tokens,     \* the tokens pushed so far, then the token slice parsed
    pc,         \* "lex", "parse", "lower", "analyze", "compile", "done", "panic"
    cst,        \* the Root node built by parse_tokens_to_cst
    ast,        \* the records returned by lower_to_ast
    diags,      \* the lines printed by analyze
    out         \* the text returned by compile

vars == <<lexer, source, pos, tokens, pc, cst, ast, diags, out>>

NoNode == SyntaxNodeData("None", <<>>)

Init ==
    /\ pos = 1
    /\ cst = NoNode
    /\ ast = <<>>
    /\ diags = <<>>
    /\ out = <<>>
    /\ \/ /\ lexer \in {"table", "old"}
          /\ source \in Sources
          /\ tokens = <<>>
          /\ pc = "lex"
       \/ /\ lexer = "none"
          /\ source = <<>>
          /\ tokens \in TokenSlices
          /\ pc = "parse"

(***************************************************************************)
(* table_lex: one iteration of `while let Some(&ch) = chars.peek()`, and   *)
(* the return when the iterator is exhausted.                              *)
(***************************************************************************)
TableLexIter ==
    /\ pc = "lex" /\ lexer = "table"
    /\ pos <= Len(source)
    /\ LET r == table_lex_iteration(source, pos)
       IN /\ tokens' = Append(tokens, r.tok)
          /\ pos' = pos + r.n
    /\ UNCHANGED <<lexer, source, pc, cst, ast, diags, out>>

TableLexReturn ==
    /\ pc = "lex" /\ lexer = "table"
    /\ pos > Len(source)
    /\ pc' = "parse"
    /\ UNCHANGED <<lexer, source, pos, tokens, cst, ast, diags, out>>

(***************************************************************************)
(* lex (old_lexer.rs): one iteration of its loop, and the return.          *)
(***************************************************************************)
LexIter ==
    /\ pc = "lex" /\ lexer = "old"
    /\ pos <= Len(source)
    /\ LET r == lex_iteration(source, pos)
       IN /\ tokens' = Append(tokens, r.tok)
          /\ pos' = pos + r.n
    /\ UNCHANGED <<lexer, source, pc, cst, ast, diags, out>>

LexReturn ==
    /\ pc = "lex" /\ lexer = "old"
    /\ pos > Len(source)
    /\ pc' = "parse"
    /\ UNCHANGED <<lexer, source, pos, tokens, cst, ast, diags, out>>

ParseTokensToCst ==
    /\ pc = "parse"
    /\ cst' = parse_tokens_to_cst(tokens)
    /\ pc' = "lower"
    /\ UNCHANGED <<lexer, source, pos, tokens, ast, diags, out>>

(***************************************************************************)
(* lower_to_ast: a panic unwinds the call, and the records built so far    *)
(* are dropped with it.                                                    *)
(***************************************************************************)
LowerToAst ==
    /\ pc = "lower"
    /\ LET r == lower_to_ast(cst)
       IN IF r.panic
          THEN pc' = "panic" /\ ast' = <<>>
          ELSE pc' = "analyze" /\ ast' = r.decls
    /\ UNCHANGED <<lexer, source, pos, tokens, cst, diags, out>>

Analyze ==
    /\ pc = "analyze"
    /\ diags' = analyze(ast)
    /\ pc' = "compile"
    /\ UNCHANGED <<lexer, source, pos, tokens, cst, ast, out>>

Compile ==
    /\ pc = "compile"
    /\ out' = compile(ast)
    /\ pc' = "done"
    /\ UNCHANGED <<lexer, source, pos, tokens, cst, ast, diags>>

Next ==
    \/ TableLexIter
    \/ TableLexReturn
    \/ LexIter
    \/ LexReturn
    \/ ParseTokensToCst
    \/ LowerToAst
    \/ Analyze
    \/ Compile

Spec == Init /\ [][Next]_vars

(***************************************************************************)
(* Helpers of the properties.                                              *)
(***************************************************************************)
RECURSIVE ConcatTexts(_)
ConcatTexts(toks) ==
    IF toks = <<>> THEN <<>> ELSE Head(toks).text \o ConcatTexts(Tail(toks))

Lexed == lexer # "none" /\ pc # "lex"

Parsed == pc \notin {"lex", "parse"}

LowerReturned == pc \in {"analyze", "compile", "done"}

LowerCalled == LowerReturned \/ pc = "panic"

FieldKinds == {"Ident", "Type", "StringLiteral"}

\* The texts of the identifier, type and string-literal tokens of a node,
\* in the order they appear in it.
FieldTexts(node) ==
    LET fields == SelectSeq(node_tokens(node), LAMBDA t : t.kind \in FieldKinds)
    IN [i \in DOMAIN fields |-> fields[i].text]

FieldKindsOf(node) ==
    LET fields == SelectSeq(node_tokens(node), LAMBDA t : t.kind \in FieldKinds)
    IN [i \in DOMAIN fields |-> fields[i].kind]

HasAllFields(node) ==
    \A k \in FieldKinds : \E i \in DOMAIN node_tokens(node) : node_tokens(node)[i].kind = k

Record(name, ty, value) == [name |-> name, ty |-> ty, value |-> value]

(***************************************************************************)
(* C1: lossless scan.  When table_lex has returned, the texts of its       *)
(* tokens, concatenated in order, are exactly the source: every input      *)
(* character, the quotes of string literals included, is in one token.     *)
(***************************************************************************)
C1_LosslessScan ==
    (lexer = "table" /\ pc # "lex") => ConcatTexts(tokens) = source

(***************************************************************************)
(* C2: for every source text, lex, then parse_tokens_to_cst, then          *)
(* lower_to_ast complete without a panic.                                  *)
(***************************************************************************)
C2_PipelineDoesNotPanic ==
    lexer = "old" => pc # "panic"

(***************************************************************************)
(* C3: a source of n well-formed declarations, scanned with its            *)
(* whitespace tokens kept, parses to a Root of n VarDecl nodes in source   *)
(* order, each holding its identifier, type and string literal in that     *)
(* order; lower_to_ast returns the n records and compile the n entries.    *)
(***************************************************************************)
WellFormedRecords ==
    [src \in {HappyPathSource, TwoDeclsSource} |->
        IF src = HappyPathSource
        THEN <<Record(<<"x">>, TyString, <<"h","i">>)>>
        ELSE <<Record(<<"a">>, TyString, <<"1">>), Record(<<"b">>, TyString, <<"2">>)>>]

C3_WellFormedDeclarations ==
    (lexer # "none" /\ source \in DOMAIN WellFormedRecords) =>
        LET want == WellFormedRecords[source]
        IN /\ pc # "panic"
           /\ Parsed =>
                /\ cst.kind = "Root"
                /\ Len(cst.children) = Len(want)
                /\ \A i \in DOMAIN want :
                      /\ cst.children[i].el = "Node"
                      /\ cst.children[i].node.kind = "VarDecl"
                      /\ FieldKindsOf(cst.children[i].node)
                            = <<"Ident", "Type", "StringLiteral">>
                      /\ FieldTexts(cst.children[i].node)
                            = <<want[i].name, want[i].ty, want[i].value>>
           /\ LowerReturned => ast = want
           /\ pc = "done" =>
                out = <<"{", NL>>
                      \o Flatten([i \in DOMAIN want |->
                            <<" ", " ", Q>> \o want[i].name \o <<Q, ":", " ", Q>>
                            \o want[i].value \o <<Q, ",", NL>>])
                      \o <<"}">>

(***************************************************************************)
(* C4: lower_to_ast on a Root of several VarDecl nodes of which one lacks  *)
(* an identifier, a type or a string literal does not abort the call: it   *)
(* returns, and the records it returns are those of all the other          *)
(* declarations, in order (the failure concerns that declaration only).    *)
(***************************************************************************)
CompleteNodes(root) == SelectSeq(child_nodes(root), HasAllFields)

C4_LoweringFailsPerDeclaration ==
    (LowerCalled /\ Len(cst.children) >= 2
        /\ Len(CompleteNodes(cst)) = Len(cst.children) - 1) =>
        /\ pc # "panic"
        /\ ast = [i \in DOMAIN CompleteNodes(cst) |->
                    Record(FieldTexts(CompleteNodes(cst)[i])[1],
                           FieldTexts(CompleteNodes(cst)[i])[2],
                           FieldTexts(CompleteNodes(cst)[i])[3])]

(***************************************************************************)
(* C5: when the source ends inside a string literal (its last quote opens  *)
(* a literal that is never closed), table_lex returns, the last token is   *)
(* the one token of that literal, of kind Error with the characters after  *)
(* the opening quote as text; the tokens before it account for exactly     *)
(* the text before that quote; the StringLiteral tokens are those of the   *)
(* closed literals only, and no declaration of the tree holds the Error    *)
(* token or more string literals than the source closes.                   *)
(***************************************************************************)
QuoteCount(s) == Cardinality({i \in DOMAIN s : s[i] = Q})

LastQuote(s) == CHOOSE i \in DOMAIN s : s[i] = Q /\ \A j \in (i + 1)..Len(s) : s[j] # Q

EndsInsideString(s) == QuoteCount(s) % 2 = 1

\* Characters of the source a token of table_lex stands for.
Width(tok) == Len(tok.text) + (IF tok.kind = "StringLiteral" THEN 2 ELSE 0)

RECURSIVE SumWidths(_)
SumWidths(toks) ==
    IF toks = <<>> THEN 0 ELSE Width(Head(toks)) + SumWidths(Tail(toks))

CountKind(toks, kind) == Cardinality({i \in DOMAIN toks : toks[i].kind = kind})

RECURSIVE CstLeaves(_)
CstLeaves(nodes) ==
    IF nodes = <<>> THEN <<>>
    ELSE node_tokens(Head(nodes)) \o CstLeaves(Tail(nodes))

C5_UnterminatedString ==
    (lexer = "table" /\ pc # "lex" /\ EndsInsideString(source)) =>
        LET open == LastQuote(source)
            rest == SubSeq(source, open + 1, Len(source))
        IN /\ tokens # <<>>
           /\ tokens[Len(tokens)] = TokenData("Error", rest)
           /\ SumWidths(SubSeq(tokens, 1, Len(tokens) - 1)) = open - 1
           /\ CountKind(tokens, "StringLiteral") = QuoteCount(source) \div 2
           /\ Parsed =>
                /\ CountKind(CstLeaves(child_nodes(cst)), "Error") = 0
                /\ CountKind(CstLeaves(child_nodes(cst)), "StringLiteral")
                      <= QuoteCount(source) \div 2

C5_Witness ==
    /\ lexer = "table" /\ pc = "lower"
    /\ source = UnterminatedSource
    /\ tokens[Len(tokens)] = TokenData("Error", <<"o", "o", "p", "s">>)

(***************************************************************************)
(* C6: greedy longest match.  Whenever table_lex scans at a position       *)
(* where the operator trie matches a prefix of the remaining input, the    *)
(* iteration pushes the token of the longest registered sequence, the      *)
(* one lex_operator returns, and consumes exactly its characters.          *)
(***************************************************************************)
C6_LongestOperatorMatch ==
    [][(pc = "lex" /\ lexer = "table" /\ pos <= Len(source)
            /\ lex_operator(source, pos, build_operator_trie).some) =>
        LET m == lex_operator(source, pos, build_operator_trie)
        IN tokens' = Append(tokens, m.tok) /\ pos' = pos + m.n]_vars

(***************************************************************************)
(* C7: table_lex terminates.  Every iteration of its loop pushes one       *)
(* token and moves the scan position forward by at least one character,    *)
(* never past the end of the source, and when it returns on a non-empty    *)
(* source it returns at least one token.                                   *)
(***************************************************************************)
C7_ScanProgress ==
    [][(pc = "lex" /\ lexer = "table") =>
        \/ /\ pos <= Len(source)
           /\ pos' > pos /\ pos' <= Len(source) + 1
           /\ Len(tokens') = Len(tokens) + 1
           /\ pc' = "lex"
        \/ /\ pos = Len(source) + 1
           /\ pc' = "parse" /\ tokens' = tokens
           /\ source # <<>> => tokens # <<>>]_vars

C7_Witness ==
    /\ lexer = "table" /\ pc = "parse"
    /\ source = <<"@", " ", Q>>
    /\ Len(tokens) = 3

(***************************************************************************)
(* C8: the declaration `let a: number = "1";` lowers to the record         *)
(* {a, number, 1}, analyze reports its type as unsupported, and compile    *)
(* still emits the entry "a": "1".                                         *)
(***************************************************************************)
C8_UnsupportedType ==
    (lexer # "none" /\ source = UnsupportedTypeSource) =>
        /\ pc # "panic"
        /\ LowerReturned => ast = <<Record(<<"a">>, TyNumber, <<"1">>)>>
        /\ pc \in {"compile", "done"} =>
             diags = <<[level |-> "Error", what |-> "Unsupported type", arg |-> TyNumber]>>
        /\ pc = "done" =>
             out = <<"{", NL, " ", " ", Q, "a", Q, ":", " ", Q, "1", Q, ",", NL, "}">>

(***************************************************************************)
(* C9: for every source text the pipeline lex, parse_tokens_to_cst,        *)
(* lower_to_ast, compile reaches the end and the text of compile is a      *)
(* valid JSON document.                                                    *)
(***************************************************************************)
C9_CompileOutputsValidJson ==
    lexer = "old" => (pc # "panic" /\ (pc = "done" => from_str_is_ok(out)))

(***************************************************************************)
(* C10: the text of compile is `{`, a newline, then for each record in     *)
(* order the line of two spaces, "name": "value", a comma and a newline,   *)
(* then `}`: name and value verbatim, a comma after every entry, nothing   *)
(* of the type or of the diagnostics.                                      *)
(***************************************************************************)
\* Characters of the output before the entry of record i.
RECURSIVE EntryOffset(_, _)
EntryOffset(decls, i) ==
    IF i = 1 THEN 2
    ELSE EntryOffset(decls, i - 1)
         + Len(decls[i - 1].name) + Len(decls[i - 1].value) + 10

DeclStream(id, str) ==
    <<TokenData("Let", <<"l","e","t">>),
      TokenData("Whitespace", <<" ">>),
      TokenData("Ident", id),
      TokenData("Colon", <<":">>),
      TokenData("Whitespace", <<" ">>),
      TokenData("Type", <<"s","t","r","i","n","g">>),
      TokenData("Whitespace", <<" ">>),
      TokenData("Equal", <<"=">>),
      TokenData("Whitespace", <<" ">>),
      TokenData("StringLiteral", str),
      TokenData("Semicolon", <<";">>)>>

C11_DeclarationTokens ==
    \A id \in DeclIds, str \in DeclStrings :
        (Lexed /\ lexer \in {"table", "old"} /\ source = DeclText(id, TyString, str)) =>
            /\ Len(tokens) = 11
            /\ tokens = DeclStream(id, str)

C11_Witness ==
    /\ lexer = "table" /\ pc = "parse"
    /\ source = DeclText(<<"n","a","m","e">>, TyString, <<"A","b","h","i">>)
    /\ Len(tokens) = 11
    /\ tokens[10] = TokenData("StringLiteral", <<"A","b","h","i">>)

(***************************************************************************)
(* C12: every VarDecl node parse_tokens_to_cst builds has only token       *)
(* children: the Let token first, then tokens whose kinds are a            *)
(* subsequence of Ident, Colon, Type, Equal, StringLiteral, Semicolon,     *)
(* each kind at most once and none out of order.                           *)
(***************************************************************************)
ExpectedOrder == <<"Ident", "Colon", "Type", "Equal", "StringLiteral", "Semicolon">>

\* The place of a kind in the fixed order, 0 for a kind that is not in it.
Rank(kind) ==
    IF \E r \in DOMAIN ExpectedOrder : ExpectedOrder[r] = kind
    THEN CHOOSE r \in DOMAIN ExpectedOrder : ExpectedOrder[r] = kind
    ELSE 0

VarDeclShapeOk(node) ==
    /\ node.kind = "VarDecl"
    /\ \A j \in DOMAIN node.children : node.children[j].el = "Token"
    /\ Len(node.children) >= 1
    /\ node.children[1].token.kind = "Let"
    /\ \A j \in 2..Len(node.children) : Rank(node.children[j].token.kind) >= 1
    /\ \A j, k \in 2..Len(node.children) :
          j < k => Rank(node.children[j].token.kind) < Rank(node.children[k].token.kind)

C12_VarDeclShape ==
    Parsed =>
        \A n \in DOMAIN cst.children :
            /\ cst.children[n].el = "Node"
            /\ VarDeclShapeOk(cst.children[n].node)

\* A full declaration followed by one whose identifier is missing.
C12_Witness ==
    /\ lexer = "none" /\ pc = "lower"
    /\ Len(cst.children) = 2
    /\ Len(cst.children[1].node.children) = 7
    /\ Len(cst.children[2].node.children) = 6
    /\ cst.children[2].node.children[2].token.kind = "Colon"

(***************************************************************************)
(* C13: parse_tokens_to_cst returns a Root whose children are all VarDecl  *)
(* nodes; the token leaves of the tree, read left to right, are exactly    *)
(* the first k tokens of the slice; the token after them, if any, is not   *)
(* Let (building stopped there), and no element of kind Error is made      *)
(* for the tokens left out.                                                *)
(***************************************************************************)
C13_RootCoversPrefix ==
    Parsed =>
        LET leaves == CstLeaves(child_nodes(cst))
            k == Len(leaves)
        IN /\ cst.kind = "Root"
           /\ \A n \in DOMAIN cst.children :
                 /\ cst.children[n].el = "Node"
                 /\ cst.children[n].node.kind = "VarDecl"
                 /\ \A j \in DOMAIN cst.children[n].node.children :
                       cst.children[n].node.children[j].el = "Token"
           /\ k <= Len(tokens)
           /\ leaves = SubSeq(tokens, 1, k)
           /\ k < Len(tokens) => tokens[k + 1].kind # "Let"
           /\ (tokens # <<>> /\ tokens[1].kind # "Let") => k = 0
           /\ \A j \in DOMAIN leaves : leaves[j].kind # "Error"

\* Building stopped before the end, with a later Let left out of the tree.
C13_Witness ==
    /\ lexer = "none" /\ pc = "lower"
    /\ Len(cst.children) = 1
    /\ Len(CstLeaves(child_nodes(cst))) = 2
    /\ Len(tokens) = 4
    /\ tokens[3].kind = "Error"
    /\ tokens[4].kind = "Let"

(***************************************************************************)
(* semantic.rs: the line counter of provide_semantic_tokens after the      *)
(* whole stream: one line per token of kind NewLine.                       *)
(***************************************************************************)
current_line(toks) == Cardinality({i \in DOMAIN toks : toks[i].kind = "NewLine"})

(***************************************************************************)
(* C14: every newline character of the source is a token of its own, of    *)
(* kind NewLine with the newline as text, and no Whitespace token stands   *)
(* for or holds a newline: in the stream of table_lex and in the stream    *)
(* of lex, whose NewLine tokens the highlighting layer counts as lines.    *)
(***************************************************************************)
NewlinePositions(s) == {i \in DOMAIN s : s[i] = NL}

C14_NewlineTokens ==
    Lexed =>
        /\ CountKind(tokens, "NewLine") = Cardinality(NewlinePositions(source))
        /\ \A i \in DOMAIN tokens :
              /\ tokens[i].kind = "NewLine" => tokens[i].text = <<NL>>
              /\ tokens[i].kind # "NewLine" =>
                    \A j \in DOMAIN tokens[i].text : tokens[i].text[j] # NL
        /\ lexer = "old" => current_line(tokens) = Cardinality(NewlinePositions(source))

====
